---- MODULE Spec2Model ----
(***************************************************************************)
(* Model of nightscout_backup.py: one run of main(), which pages through   *)
(* the "entries" collection (get_entries), writes the entries archive,     *)
(* pages through the "treatments" collection (get_treatments, which calls  *)
(* split_data on every page) and writes one archive per event type.        *)
(*                                                                         *)
(* Timestamps are the lexically sortable date strings of the API; they are *)
(* modelled by the integers 1..MaxTs, ordered as the strings are.          *)
(* A DataFrame is a sequence of rows; a row is a function from column      *)
(* names to cell values, Null standing for NaN / a missing cell.           *)
(***************************************************************************)
EXTENDS Integers, Sequences, FiniteSets, TLC

\* ---------------------------------------------------------------- bounds
MaxTs == 3      \* distinct timestamps
MaxV == 2       \* distinct values of a payload field
MaxN == 3       \* records held by the entries collection
MaxNT == 2      \* records held by the treatments collection
MaxB == 3       \* --batch values tried
MaxM == 3       \* --max values tried
MaxReq == 5     \* cap on the requests of one pagination loop

\* default_max_records = None
None == -1
\* NaN / missing cell of a DataFrame
Null == 0

VARIABLES
    batchsize, max_records, whitespace,  \* args (lines 37-52)
    server,       \* the collection behind the endpoint being paged
    inclusive,    \* the server returns the boundary record again
    pc,           \* position of the run in main()
    exc,          \* the uncaught exception that ended the run, or ""
    data,         \* local `data`: the page last received
    num_records,  \* local `num_records`
    all_data,     \* local `all_data`
    tables,       \* the value of the last split_data(data) call
    requests,     \* history: the cursor sent with each request
    pages,        \* history: the raw page received for each request
    entries,      \* main's `entries`
    treatments,   \* main's `treatments`
    files,        \* archive files written so far
    out           \* diagnostics printed so far

vars == <<batchsize, max_records, whitespace, server, inclusive, pc, exc, data,
          num_records, all_data, tables, requests, pages, entries,
          treatments, files, out>>

args == <<batchsize, max_records, whitespace>>

\* ------------------------------------------------------------- helpers
Min(a, b) == IF a < b THEN a ELSE b

RECURSIVE SumLen(_)
SumLen(ps) == IF ps = <<>> THEN 0 ELSE Len(Head(ps)) + SumLen(Tail(ps))

RECURSIVE Flatten(_)
Flatten(ps) == IF ps = <<>> THEN <<>> ELSE Head(ps) \o Flatten(Tail(ps))

Range(s) == {s[i] : i \in 1..Len(s)}

SeqsUpTo(S, n) == UNION {[1..k -> S] : k \in 0..n}

\* ------------------------------------------------------------- server
\* Response contract: a JSON array ordered newest-first by the timestamp.
NewestFirst(s, datefield) ==
    \A i \in 1..(Len(s) - 1) : s[i][datefield] >= s[i + 1][datefield]

StrictlyDecreasing(s, datefield) ==
    \A i \in 1..(Len(s) - 1) : s[i][datefield] > s[i + 1][datefield]

\* Only the order of the timestamps matters to the server and to the code:
\* the timestamps of a collection are taken to be 1..k for some k.
DenseTimestamps(s, datefield) ==
    \E k \in 0..MaxTs : {s[i][datefield] : i \in 1..Len(s)} = 1..k

PairwiseDistinct(s) == \A i, j \in 1..Len(s) : i # j => s[i] # s[j]

\* BGL entries: {"dateString": ..., "sgv": ...}
EntryRecords == [dateString : 1..MaxTs, sgv : 1..MaxV]

EntryCollections ==
    {s \in SeqsUpTo(EntryRecords, MaxN) :
        NewestFirst(s, "dateString") /\ DenseTimestamps(s, "dateString")}

\* Treatment records are dicts whose key sets differ: eventType, boluscalc
\* and profileJson are each present on some records only.
Boluscalcs == [{"bgdiff"} -> 1..MaxV]
ProfileJsons == [{"basal"} -> {1}]

TreatmentsAt(t) ==
    LET base == ("created_at" :> t)
        typed(et) == base @@ ("eventType" :> et)
    IN  {base, typed("Bolus_Wizard"), typed("Bolus Wizard"),
         typed("Profile Switch")}
        \cup {typed("Bolus Wizard") @@ ("boluscalc" :> bc) : bc \in Boluscalcs}
        \cup {typed("Profile Switch") @@ ("profileJson" :> pj) :
                pj \in ProfileJsons}

TreatmentRecords == UNION {TreatmentsAt(t) : t \in 1..MaxTs}

TreatmentCollections ==
    {s \in SeqsUpTo(TreatmentRecords, MaxNT) :
        NewestFirst(s, "created_at") /\ DenseTimestamps(s, "created_at")}

\* find[<datefield>][$lt]=<cursor>
FindLte(r, datefield, cursor) == r[datefield] <= cursor
FindLt(r, datefield, cursor) == r[datefield] < cursor

\* The comment of lines 86-87 expects consecutive pages to overlap in the
\* boundary record: a server that reads the cursor inclusively does that.
FindInclusive(r, datefield, cursor) == r[datefield] <= cursor

\* One request: count=<batchsize>, optionally with the $lt filter.
\* The server answers with the newest at most count matching records.
Matching(db, datefield, cursor) ==
    SelectSeq(db, LAMBDA r :
        \/ cursor = None
        \/ IF inclusive THEN FindInclusive(r, datefield, cursor)
                        ELSE FindLt(r, datefield, cursor))

Respond(db, datefield, cursor, count) ==
    LET m == Matching(db, datefield, cursor)
    IN  SubSeq(m, 1, Min(count, Len(m)))

\* ------------------------------------------------------------- pandas
\* pd.DataFrame(list of dicts): one row per dict, the columns are the
\* union of the keys, a missing cell is NaN.
Columns(rows) == UNION {DOMAIN rows[i] : i \in 1..Len(rows)}

DataFrame(rows) ==
    LET cols == Columns(rows)
    IN  [i \in 1..Len(rows) |->
            [c \in cols |-> IF c \in DOMAIN rows[i] THEN rows[i][c] ELSE Null]]

\* DataFrame.drop(col, axis=1); KeyError when the column does not exist
DropRaises(df, col) == col \notin Columns(df)

Drop(df, col) ==
    [i \in 1..Len(df) |-> [c \in (DOMAIN df[i]) \ {col} |-> df[i][c]]]

\* pd.concat(list of frames): rows appended, columns unioned
Concat(dfs) == DataFrame(Flatten(dfs))

\* DataFrame.drop_duplicates(): keep the first occurrence of each row.
RECURSIVE DropDuplicates(_)
KeepDuplicates(s) == s
DropOneDuplicate(s) ==
    LET dup == {j \in 1..Len(s) : \E i \in 1..(j - 1) : s[i] = s[j]}
    IN  IF dup = {} THEN s
        ELSE LET j == CHOOSE k \in dup : \A l \in dup : k <= l
             IN  SubSeq(s, 1, j - 1) \o SubSeq(s, j + 1, Len(s))
DropDuplicates(s) ==
    IF s = <<>> THEN <<>>
    ELSE LET r == DropDuplicates(SubSeq(s, 1, Len(s) - 1))
             x == s[Len(s)]
         IN  IF x \in Range(r) THEN r ELSE Append(r, x)

\* data[datefield].iloc[-1] / data[-1][datefield]
EarliestDatestr(d, datefield) == d[Len(d)][datefield]

\* while args.max_records is None or num_records < args.max_records
LoopCondLe(n, m) == m = None \/ n <= m
LoopCond(n, m) == m = None \/ n < m

\* args.max_records is not None and num_records >= args.max_records
MaxReached(n, m) == m # None /\ n >= m

\* all_data.append(data)
AppendPageReplace(acc, d) == <<d>>
AppendPage(acc, d) == Append(acc, d)

\* ------------------------------------------------------------- split_data
Has(e, key) == key \in DOMAIN e

\* [event for event in data if event['eventType']==et]
EventsOfSkipping(d, et) ==
    SelectSeq(d, LAMBDA e : /\ e["eventType"] = et
                            /\ et = "Profile Switch" => Has(e, "profileJson"))
EventsOf(d, et) == SelectSeq(d, LAMBDA e : e["eventType"] = et)

\* set([event['eventType'] for event in data])
EventtypesPresent(d) == {d[i]["eventType"] : i \in 1..Len(d)}

\* result[et].loc[rows, prefix+field] = parsed[field]
\* The assignment aligns parsed[field] with the selected rows on the index
\* label: selected row i receives parsed[field][i], NaN when parsed has no
\* row i; a row that is not selected keeps NaN in the new column.
LocAssign(df, selected, prefix, parsed) ==
    [i \in 1..Len(df) |->
        df[i] @@ [c \in {prefix \o f : f \in Columns(parsed)} |->
                    LET f == CHOOSE g \in Columns(parsed) : prefix \o g = c
                    IN  IF selected[i] /\ i <= Len(parsed)
                        THEN parsed[i][f] ELSE Null]]

\* lines 147-155
BolusWizardRaises(events) == DropRaises(DataFrame(events), "boluscalc")

BolusWizardFrame(events) ==
    LET result == Drop(DataFrame(events), "boluscalc")
        withbc == SelectSeq(events, LAMBDA e : Has(e, "boluscalc"))
        parsed == DataFrame([i \in 1..Len(withbc) |-> withbc[i]["boluscalc"]])
        bc_exists == [i \in 1..Len(events) |-> Has(events[i], "boluscalc")]
    IN  LocAssign(result, bc_exists, "boluscalc_", parsed)

\* json.dumps of a profile value
JsonDumps(v) == ToString(v)

\* lines 156-164
ProfileSwitchRaises(events) ==
    \/ DropRaises(DataFrame(events), "profileJson")
    \/ \E i \in 1..Len(events) : ~Has(events[i], "profileJson")

ProfileSwitchFrame(events) ==
    LET result == Drop(DataFrame(events), "profileJson")
        parsed == DataFrame([i \in 1..Len(events) |->
                     [k \in DOMAIN events[i]["profileJson"] |->
                         JsonDumps(events[i]["profileJson"][k])]])
    IN  LocAssign(result, [i \in 1..Len(events) |-> TRUE], "profile_", parsed)

\* split_data raises KeyError
SplitDataRaises(d) ==
    \/ \E i \in 1..Len(d) : ~Has(d[i], "eventType")
    \/ \E et \in EventtypesPresent(d) :
          \/ et = "Bolus Wizard" /\ BolusWizardRaises(EventsOf(d, et))
          \/ et = "Profile Switch" /\ ProfileSwitchRaises(EventsOf(d, et))

\* split_data returns a dict: event type -> DataFrame
SplitData(d) ==
    [et \in EventtypesPresent(d) |->
        IF et = "Bolus Wizard" THEN BolusWizardFrame(EventsOf(d, et))
        ELSE IF et = "Profile Switch" THEN ProfileSwitchFrame(EventsOf(d, et))
        ELSE DataFrame(EventsOf(d, et))]

\* [e for e in data if 'eventType' in e.keys()]
WithEventType(d) == SelectSeq(d, LAMBDA e : Has(e, "eventType"))

\* for eventtype, df in split_data(data).items():
\*     all_data[eventtype].append(df)
AppendTables(acc, t) ==
    [et \in (DOMAIN acc) \cup (DOMAIN t) |->
        IF et \in DOMAIN t
        THEN (IF et \in DOMAIN acc THEN Append(acc[et], t[et]) ELSE <<t[et]>>)
        ELSE acc[et]]

\* the empty dict / defaultdict(list)
EmptyDict == [x \in {} |-> <<>>]

\* ------------------------------------------------------------- main
\* eventtype.replace(' ', '_') on the event types of the model
ReplaceSpaces(et) ==
    CASE et = "Bolus Wizard" -> "Bolus_Wizard"
      [] et = "Profile Switch" -> "Profile_Switch"
      [] OTHER -> et

TreatmentFile(et, ws) ==
    "nightscout_treatments_" \o (IF ws THEN et ELSE ReplaceSpaces(et))
        \o ".csv.gz"

EntriesFile == "nightscout_entries.csv.gz"

\* entries.to_csv('nightscout_entries.csv.gz', ...)
WriteEntriesSkipped(fs) == fs
WriteEntries(fs) == fs \cup {EntriesFile}

\* ------------------------------------------------------------- Init
\* lines 51-52: the batch size is lowered to max_records
ClampBatchsize(b, m) == IF m # None /\ m < b THEN m ELSE b

Start ==
    /\ \E b \in 1..MaxB, m \in {None} \cup (1..MaxM) :
          /\ max_records = m
          /\ batchsize = ClampBatchsize(b, m)
    /\ whitespace \in BOOLEAN
    /\ server \in EntryCollections
    /\ pc = "get_entries"
    /\ exc = ""
    /\ data = <<>>
    /\ num_records = 0
    /\ all_data = <<>>
    /\ tables = EmptyDict
    /\ requests = <<>>
    /\ pages = <<>>
    /\ entries = <<>>
    /\ treatments = EmptyDict
    /\ files = {}
    /\ out = {}

\* The server honours the strictly-less-than filter.
Init == Start /\ inclusive = FALSE

\* The server returns the boundary record of a page again in the next page.
OverlapInit == Start /\ inclusive = TRUE

\* An uncaught exception ends the run where it is raised; sys.exit(1)
\* raises SystemExit.
Raise(e) == exc' = e /\ pc' = pc

\* requests.get raises (there is no handler anywhere): the run aborts.
TransportError ==
    /\ exc = ""
    /\ pc \in {"get_entries", "entries_loop", "get_treatments",
               "treatments_loop"}
    /\ pc \in {"entries_loop", "treatments_loop"}
          => LoopCond(num_records, max_records) /\ data # <<>>
    /\ Raise("ConnectionError")
    /\ UNCHANGED <<inclusive, args, server, data, num_records, all_data, tables,
                   requests, pages, entries, treatments, files, out>>

\* ------------------------------------------------------------- get_entries
\* lines 72-83
EntriesFirst ==
    /\ exc = ""
    /\ pc = "get_entries"
    /\ LET page == Respond(server, "dateString", None, batchsize)
       IN  /\ requests' = Append(requests, None)
           /\ pages' = Append(pages, page)
           /\ data' = DataFrame(page)
           /\ IF Len(data') = 0
              THEN /\ out' = out \cup {"No data found"}
                   /\ Raise("SystemExit")
                   /\ UNCHANGED <<num_records, all_data>>
              ELSE /\ num_records' = Len(data')
                   /\ all_data' = <<data'>>
                   /\ pc' = "entries_loop"
                   /\ UNCHANGED <<exc, out>>
    /\ UNCHANGED <<inclusive, args, server, tables, entries, treatments, files>>

\* lines 85-99, one iteration
EntriesLoop ==
    /\ exc = ""
    /\ pc = "entries_loop"
    /\ LoopCond(num_records, max_records)
    /\ Len(requests) < MaxReq
    /\ LET earliest_datestr == EarliestDatestr(data, "dateString")
           page == Respond(server, "dateString", earliest_datestr, batchsize)
       IN  /\ requests' = Append(requests, earliest_datestr)
           /\ pages' = Append(pages, page)
           /\ data' = DataFrame(page)
           /\ IF Len(data') = 0
              THEN /\ pc' = "entries_end"
                   /\ UNCHANGED <<num_records, all_data>>
              ELSE /\ all_data' = AppendPage(all_data, data')
                   /\ num_records' = num_records + Len(data')
                   /\ pc' = pc
    /\ UNCHANGED <<inclusive, args, server, exc, tables, entries, treatments, files, out>>

\* line 85, the condition is false
EntriesLoopExit ==
    /\ exc = ""
    /\ pc = "entries_loop"
    /\ ~LoopCond(num_records, max_records)
    /\ pc' = "entries_end"
    /\ UNCHANGED <<inclusive, args, server, exc, data, num_records, all_data, tables,
                   requests, pages, entries, treatments, files, out>>

\* lines 101-106
EntriesReturn ==
    /\ exc = ""
    /\ pc = "entries_end"
    /\ out' = IF MaxReached(num_records, max_records)
              THEN out \cup {"Max records reached"} ELSE out
    /\ entries' = DropDuplicates(Concat(all_data))
    /\ pc' = "save_entries"
    /\ UNCHANGED <<inclusive, args, server, exc, data, num_records, all_data, tables,
                   requests, pages, treatments, files>>

\* lines 246-250: the entries archive is written, then get_treatments is
\* called.  The locals of get_entries are gone and `entries` is not read
\* again; the entries collection is not queried again either.
SaveEntries ==
    /\ exc = ""
    /\ pc = "save_entries"
    /\ files' = WriteEntries(files)
    /\ server' = <<>>
    /\ data' = <<>>
    /\ num_records' = 0
    /\ all_data' = EmptyDict
    /\ requests' = <<>>
    /\ pages' = <<>>
    /\ entries' = <<>>
    /\ pc' = "get_treatments"
    /\ UNCHANGED <<inclusive, args, exc, tables, treatments, out>>

\* ------------------------------------------------------------- get_treatments
\* lines 193-213; `server` becomes the treatments collection the server
\* holds when the first request for it arrives
TreatmentsFirst ==
    /\ exc = ""
    /\ pc = "get_treatments"
    /\ server' \in TreatmentCollections
    /\ LET page == Respond(server', "created_at", None, batchsize)
       IN  /\ requests' = Append(requests, None)
           /\ pages' = Append(pages, page)
           /\ IF Len(page) = 0
              THEN \* line 197: data[0] on the empty list
                   /\ Raise("IndexError")
                   /\ data' = page
                   /\ UNCHANGED <<num_records, all_data, tables>>
              ELSE /\ data' = WithEventType(page)
                   /\ num_records' = Len(data')
                   /\ IF SplitDataRaises(data')
                      THEN /\ Raise("KeyError")
                           /\ UNCHANGED <<all_data, tables>>
                      ELSE /\ tables' = SplitData(data')
                           /\ all_data' = AppendTables(EmptyDict, tables')
                           /\ pc' = "treatments_loop"
                           /\ exc' = exc
    /\ UNCHANGED <<inclusive, args, entries, treatments, files, out>>

\* lines 215-231, one iteration
TreatmentsLoop ==
    /\ exc = ""
    /\ pc = "treatments_loop"
    /\ LoopCond(num_records, max_records)
    /\ Len(requests) < MaxReq
    /\ IF Len(data) = 0
       THEN \* line 216: data[-1] on the empty list
            /\ Raise("IndexError")
            /\ UNCHANGED <<data, num_records, all_data, tables, requests,
                           pages>>
       ELSE LET earliest_datestr == EarliestDatestr(data, "created_at")
                page == Respond(server, "created_at", earliest_datestr,
                                batchsize)
            IN  /\ requests' = Append(requests, earliest_datestr)
                /\ pages' = Append(pages, page)
                /\ IF Len(page) = 0
                   THEN /\ data' = page
                        /\ pc' = "treatments_end"
                        /\ UNCHANGED <<exc, num_records, all_data, tables>>
                   ELSE /\ data' = WithEventType(page)
                        /\ IF SplitDataRaises(data')
                           THEN /\ Raise("KeyError")
                                /\ UNCHANGED <<num_records, all_data, tables>>
                           ELSE /\ tables' = SplitData(data')
                                /\ all_data' = AppendTables(all_data, tables')
                                /\ num_records' = num_records + Len(data')
                                /\ UNCHANGED <<pc, exc>>
    /\ UNCHANGED <<inclusive, args, server, entries, treatments, files, out>>

\* line 215, the condition is false
TreatmentsLoopExit ==
    /\ exc = ""
    /\ pc = "treatments_loop"
    /\ ~LoopCond(num_records, max_records)
    /\ pc' = "treatments_end"
    /\ UNCHANGED <<inclusive, args, server, exc, data, num_records, all_data, tables,
                   requests, pages, entries, treatments, files, out>>

\* line 237: pd.concat(dflist)#.drop_duplicates()
ConcatTablesDedup(dflist) == DropDuplicates(Concat(dflist))
ConcatTables(dflist) == Concat(dflist)

\* lines 233-239
TreatmentsReturn ==
    /\ exc = ""
    /\ pc = "treatments_end"
    /\ out' = IF MaxReached(num_records, max_records)
              THEN out \cup {"Max records reached"} ELSE out
    /\ treatments' = [et \in DOMAIN all_data |-> ConcatTables(all_data[et])]
    /\ pc' = "save_treatments"
    /\ UNCHANGED <<inclusive, args, server, exc, data, num_records, all_data, tables,
                   requests, pages, entries, files>>

\* lines 252-257
SaveTreatments ==
    /\ exc = ""
    /\ pc = "save_treatments"
    /\ files' = files \cup
                  {TreatmentFile(et, whitespace) : et \in DOMAIN treatments}
    /\ pc' = "done"
    /\ UNCHANGED <<inclusive, args, server, exc, data, num_records, all_data, tables,
                   requests, pages, entries, treatments, out>>

Next ==
    \/ TransportError
    \/ EntriesFirst
    \/ EntriesLoop
    \/ EntriesLoopExit
    \/ EntriesReturn
    \/ SaveEntries
    \/ TreatmentsFirst
    \/ TreatmentsLoop
    \/ TreatmentsLoopExit
    \/ TreatmentsReturn
    \/ SaveTreatments

Spec == Init /\ [][Next]_vars

\* The run is sequential and never waits on anything but the response of
\* the request it has just sent: a loop that can take its next step (send
\* the next request, or find its condition false) takes it.
LoopStep ==
    EntriesLoop \/ EntriesLoopExit \/ TreatmentsLoop \/ TreatmentsLoopExit

FairSpec == Spec /\ WF_vars(LoopStep)

\* The same run against the server whose pages overlap.
OverlapSpec == OverlapInit /\ [][Next]_vars

\* ------------------------------------------------------------- positions
Aborted == exc # ""
\* sys.exit(1) and an uncaught exception both end the process with status 1
ExitStatus == IF exc = "" THEN 0 ELSE 1
InEntries == pc \in {"get_entries", "entries_loop", "entries_end"}
InTreatments == pc \in {"get_treatments", "treatments_loop", "treatments_end"}
EntriesReturned == pc = "save_entries"
TreatmentsReturned == pc = "save_treatments"
LastPage == pages[Len(pages)]

\* ------------------------------------------------------------- claims

\* C1: against a server holding N > 0 pairwise-distinct records with
\* strictly decreasing timestamps, get_entries without max_records returns
\* exactly the N records of the server: each once, none missing, none extra.
C1_ExactlyTheServerRecords ==
    (/\ EntriesReturned
     /\ max_records = None
     /\ Len(server) > 0
     /\ PairwiseDistinct(server)
     /\ StrictlyDecreasing(server, "dateString"))
    => /\ Len(entries) = Len(server)
       /\ Range(entries) = Range(DataFrame(server))

C1_Witness ==
    /\ EntriesReturned
    /\ max_records = None
    /\ Len(server) = 3
    /\ StrictlyDecreasing(server, "dateString")
    /\ batchsize = 2
    /\ Len(pages) = 3
    /\ Len(entries) = 3

C3_AllRecordsRetained ==
    (EntriesReturned /\ max_records = None)
    => \A i \in 1..Len(server) : DataFrame(server)[i] \in Range(entries)

\* ---- C4
CutoffCase == max_records # None /\ batchsize < max_records
InLoop == pc \in {"entries_loop", "treatments_loop"}
RECURSIVE TotalRows(_)
TotalRows(t) ==
    IF DOMAIN t = {} THEN 0
    ELSE LET et == CHOOSE x \in DOMAIN t : TRUE
         IN  Len(t[et]) + TotalRows([x \in (DOMAIN t) \ {et} |-> t[x]])

C5_NoDataPath ==
    (pages # <<>> /\ Len(pages[1]) = 0)
    => /\ "No data found" \in out
       /\ ExitStatus = 1
       /\ Len(requests) = 1
       /\ InEntries => EntriesFile \notin files
       /\ InTreatments => files \subseteq {EntriesFile}

\* ---- C6
\* C6 as stated: a run that aborts has written no archive file at the
\* moment of the abort.
C6_Original == Aborted => files = {}

\* C6 amended: a run that aborts in get_entries has written no archive
\* file; a run that aborts in get_treatments has written the entries archive
\* (it is written before the treatments are fetched) and no treatment
\* archive; a treatment archive exists only in a run in which both
\* collections were fetched successfully.
C6_NoPartialOutput ==
    /\ Aborted => InEntries \/ InTreatments
    /\ (Aborted /\ InEntries) => files = {}
    /\ (Aborted /\ InTreatments) => files = {EntriesFile}
    /\ ~(files \subseteq {EntriesFile}) => (pc = "done" /\ exc = "")

C6_Witness ==
    /\ Aborted
    /\ pc = "treatments_loop"
    /\ exc = "ConnectionError"
    /\ files = {EntriesFile}

\* ---- C7
\* C7: records without eventType are tolerated by get_treatments, also when
\* a whole page lacks it: no error is raised by such a page.
C7_MissingEventTypeTolerated ==
    (InTreatments /\ pages # <<>> /\ Len(pages[1]) > 0) => exc # "IndexError"

\* ---- C8
\* C8: for every page, after the eventType filter and split_data every
\* record that has an eventType is a row of the table of its type, and
\* the records without eventType are rows of no table.
C8_SplittingComplete ==
    (InTreatments /\ pages # <<>> /\ Len(LastPage) > 0)
    => /\ exc # "KeyError"
       /\ LET typed == WithEventType(LastPage)
          IN  /\ DOMAIN tables = EventtypesPresent(typed)
              /\ \A et \in DOMAIN tables :
                    Len(tables[et]) = Len(EventsOf(typed, et))

\* ---- C9
\* C9: in the "Bolus Wizard" table a record with boluscalc has its own
\* sub-object's value in every boluscalc_<key> column of its keys, a record
\* without boluscalc has null in every boluscalc_ column, and the other
\* columns of every row are unchanged.
C9_BoluscalcColumns ==
    (pc = "treatments_loop" /\ exc # "KeyError"
        /\ "Bolus Wizard" \in DOMAIN tables)
    => LET events == EventsOf(data, "Bolus Wizard")
           t == tables["Bolus Wizard"]
       IN  /\ Len(t) = Len(events)
           /\ \A i \in 1..Len(t) :
                 /\ Has(events[i], "boluscalc") =>
                       \A k \in DOMAIN events[i]["boluscalc"] :
                          t[i]["boluscalc_" \o k] = events[i]["boluscalc"][k]
                 /\ ~Has(events[i], "boluscalc") =>
                       \A c \in (DOMAIN t[i]) \ Columns(events) :
                          t[i][c] = Null
                 /\ \A c \in (DOMAIN events[i]) \ {"boluscalc"} :
                       t[i][c] = events[i][c]

\* ---- C10
MalformedProfileSwitch(r) ==
    /\ Has(r, "eventType")
    /\ r["eventType"] = "Profile Switch"
    /\ ~Has(r, "profileJson")

\* C10: a "Profile Switch" record without profileJson in a fetched page is
\* a hard failure: split_data raises, get_treatments does not return and
\* no treatment archive is written.
C10_ProfileSwitchHardFailure ==
    (\E p \in 1..Len(pages) : \E i \in 1..Len(pages[p]) :
        MalformedProfileSwitch(pages[p][i]))
    => /\ exc = "KeyError"
       /\ pc \in {"get_treatments", "treatments_loop"}
       /\ treatments = EmptyDict
       /\ files \subseteq {EntriesFile}

C10_Witness ==
    /\ exc = "KeyError"
    /\ pc = "treatments_loop"
    /\ Len(pages) = 2
    /\ \E i \in 1..Len(LastPage) : MalformedProfileSwitch(LastPage[i])
    /\ files = {EntriesFile}

\* Page p ends with the record that page p + 1 starts with.
BoundaryRepeated(p) ==
    /\ p \in 1..(Len(pages) - 1)
    /\ pages[p] # <<>>
    /\ pages[p + 1] # <<>>
    /\ pages[p][Len(pages[p])] = pages[p + 1][1]

Occurrences(df, r) == Cardinality({i \in 1..Len(df) : df[i] = r})

\* C11: whatever the pages repeat, the table get_entries returns holds no
\* two structurally equal rows and holds every fetched record exactly once;
\* in particular a record that ends one page and starts the next page
\* appears exactly once in the result.
C11_NoStructuralDuplicates ==
    EntriesReturned =>
        /\ PairwiseDistinct(entries)
        /\ \A r \in Range(DataFrame(Flatten(pages))) :
              Occurrences(entries, r) = 1
        /\ \A p \in 1..(Len(pages) - 1) :
              BoundaryRepeated(p) => Occurrences(entries, pages[p + 1][1]) = 1

C11_Witness ==
    /\ EntriesReturned
    /\ \E p \in 1..(Len(pages) - 1) : BoundaryRepeated(p)
    /\ Len(entries) >= 2

\* The archives written for treatments.
TreatmentFiles == files \ {EntriesFile}

\* The eventType values of the records fetched from the treatments endpoint.
EventTypesObserved ==
    {r["eventType"] : r \in Range(WithEventType(Flatten(pages)))}

\* C12: in a completed run the number of distinct treatment files written
\* equals the number of distinct eventType values observed, with and
\* without the replacement of whitespace: no file of one event type is
\* overwritten by the file of another event type.
C12_OneFilePerEventType ==
    pc = "done" =>
        Cardinality(TreatmentFiles) = Cardinality(EventTypesObserved)

\* line 104: the merge-then-deduplicate step of get_entries
MergeDedup(dfs) == DropDuplicates(Concat(dfs))

\* C13: deduplication is idempotent: the merge-then-deduplicate step applied
\* to the already deduplicated merged table returns that table again.
C13_DedupIdempotent ==
    EntriesReturned =>
        /\ entries = MergeDedup(all_data)
        /\ MergeDedup(<<entries>>) = entries

C13_Witness ==
    /\ EntriesReturned
    /\ Len(entries) >= 2
    /\ SumLen(all_data) >= Len(entries) + 2

\* The page just received is a batch of "Bolus Wizard" records.
BolusWizardBatch ==
    /\ InTreatments
    /\ pages # <<>>
    /\ WithEventType(LastPage) # <<>>
    /\ \A r \in Range(WithEventType(LastPage)) :
          r["eventType"] = "Bolus Wizard"

\* C14: split_data succeeds on every batch of "Bolus Wizard" records,
\* however many of them carry a boluscalc sub-object, none included: no
\* error is raised and the table has one row per record.
C14_BolusWizardBatchSucceeds ==
    BolusWizardBatch =>
        /\ exc # "KeyError"
        /\ Len(tables["Bolus Wizard"]) = Len(WithEventType(LastPage))

\* The requests of a loop: every request but the first, which has no cursor.
LoopRequests == 2..Len(requests)

\* C15: in both pagination loops, against a server that returns each page
\* newest-first and honours the strictly-less-than filter, the cursor of
\* each request is strictly less than the cursor of the request before it.
C15_CursorStrictlyDecreases ==
    (InEntries \/ InTreatments) =>
        \A i \in LoopRequests :
            (i - 1) \in LoopRequests => requests[i] < requests[i - 1]

C15_Witness ==
    /\ InTreatments
    /\ Len(requests) >= 3
    /\ requests[3] < requests[2]

\* datefield of the endpoint being paged
Datefield == IF InEntries THEN "dateString" ELSE "created_at"

\* C16: in every iteration of both pagination loops the cursor of the next
\* request is the timestamp of the last element of the page just received,
\* also when that last element is a treatment record without eventType.
C16_CursorIsLastOfPage ==
    (InEntries \/ InTreatments) =>
        \A i \in LoopRequests :
            requests[i] = EarliestDatestr(pages[i - 1], Datefield)

\* Pages p and p + 1 are consecutive non-empty pages.
ConsecutivePages(p) ==
    /\ p \in 1..(Len(pages) - 1)
    /\ pages[p] # <<>>
    /\ pages[p + 1] # <<>>

RecordsOfType(p, et) == Len(EventsOf(WithEventType(pages[p]), et))

RECURSIVE SumOverPages(_, _)
SumOverPages(n, et) ==
    IF n = 0 THEN 0 ELSE RecordsOfType(n, et) + SumOverPages(n - 1, et)

\* C18: the treatment tables are concatenated across pages without
\* deduplication: for each event type the returned table has as many rows
\* as the fetched pages hold records of that type, summed over the pages,
\* so a record the server returns in two pages is in the table twice.
C18_NoDedupAcrossPages ==
    TreatmentsReturned =>
        /\ DOMAIN treatments = EventTypesObserved
        /\ \A et \in DOMAIN treatments :
              Len(treatments[et]) = SumOverPages(Len(pages), et)
        /\ \A p \in 1..(Len(pages) - 1) :
              (BoundaryRepeated(p) /\ Has(pages[p + 1][1], "eventType")) =>
                  LET et == pages[p + 1][1]["eventType"]
                  IN  Len(treatments[et]) >= 2

C18_Witness ==
    /\ TreatmentsReturned
    /\ \E p \in 1..(Len(pages) - 1) :
          /\ BoundaryRepeated(p)
          /\ Has(pages[p + 1][1], "eventType")
          /\ ~PairwiseDistinct(treatments[pages[p + 1][1]["eventType"]])

\* max_records is set and lower than some --batch value: the batch size of
\* the run is max_records, as lines 51-52 leave it for every such value.
BatchsizeLowered ==
    /\ max_records # None
    /\ max_records < MaxB
    /\ batchsize = max_records

\* Lines 51-52 lower every configured batch size above max_records to it.
ClampLowers ==
    \A b \in 1..MaxB :
        (max_records # None /\ max_records < b)
            => ClampBatchsize(b, max_records) = max_records

\* Records of the first page that the loop counts.
FirstPageCount ==
    IF InEntries \/ EntriesReturned THEN Len(pages[1])
    ELSE Len(WithEventType(pages[1]))

====
